---- MODULE Spec2Model ----
(***************************************************************************)
(* A state-machine model of keyword_traffic_estimator.py (Python 2):      *)
(* get_traffic_estimates reads keyword rows from a CSV file, asks the     *)
(* TrafficEstimatorService for estimates in chunks, pairs the estimates   *)
(* with the pending keyword requests, reduces each min/max estimate to    *)
(* point values and writes a CSV report.                                  *)
(*                                                                         *)
(* The environment of the function is modelled as nondeterministic input: *)
(* the CSV rows, the chunk size setting, whether the name `os` resolves   *)
(* in the module namespace (the file never imports it), and what the      *)
(* injected client's service returns for each call.                       *)
(*                                                                         *)
(* Python numbers are modelled as exact rationals that remember whether   *)
(* they are an int or a float; binary floating-point rounding is not      *)
(* modelled.                                                               *)
(***************************************************************************)
EXTENDS Integers, Sequences, FiniteSets, TLC

VARIABLES
    input_rows,                 \* the rows csv.DictReader yields (environment)
    chunk_size,                 \* the chunk size handed to _chunks (module setting)
    os_bound,                   \* whether the global name `os` resolves (environment)
    pc,                         \* position in get_traffic_estimates
    keyword_estimate_requests,  \* the pending request list (line 50)
    keywords_data,              \* the result rows (line 66)
    index,                      \* enumerate's counter (line 67); NoIndex while unbound
    keywords,                   \* the chunk the loop holds (line 67)
    gen_started,                \* _chunks generator: has its body started
    gen_stop,                   \* _chunks generator: len(iterable) captured by xrange
    gen_pos,                    \* _chunks generator: the next xrange value
    keyword_estimates,          \* line 83: the value the inner loop iterates over
    estimates_left,             \* reversed() iterator: entries not yet visited
    output_file,                \* the output file: exists, header, rows
    error,                      \* the exception that ended the run, with its line
    requests,                   \* history: keywordEstimateRequests of every call
    batches,                    \* history: every chunk the generator yielded
    answers,                    \* history: what the service did on every call
    consumed                    \* history: the estimate behind every result row

vars == <<input_rows, chunk_size, os_bound, pc, keyword_estimate_requests,
          keywords_data, index, keywords, gen_started, gen_stop, gen_pos,
          keyword_estimates, estimates_left, output_file, error,
          requests, batches, answers, consumed>>

-----------------------------------------------------------------------------
(* Bounds of the model *)

MaxRows == 3
MaxChunk == 2

(* Program constants *)

_MAX_KEYWORD_REQUESTS == 500
location_ID == 2826
language_ID == 1000
NoIndex == -1

-----------------------------------------------------------------------------
(* Python numbers.  An int is [float |-> FALSE, n |-> value].  A float is a  *)
(* binary64 value m * 2^e: [float |-> TRUE, m |-> the 53 bits of m, least    *)
(* significant first, the top one set, e |-> e]; zero has no bits.  Every    *)
(* float operation rounds its exact result to nearest, ties to even.         *)
(* Numbers of the program are non-negative and within the normal range.      *)

Min(a, b) == IF a <= b THEN a ELSE b
Max(a, b) == IF a >= b THEN a ELSE b

\* natural numbers of any size: bit sequences, least significant bit first,
\* without leading zeros
BitLen(n) == Cardinality({k \in 0 .. 30 : 2 ^ k <= n})
Bits(n) == [i \in 1 .. BitLen(n) |-> (n \div 2 ^ (i - 1)) % 2]

Trim(b) ==
    LET set == {i \in 1 .. Len(b) : b[i] = 1}
    IN  IF set = {} THEN <<>>
        ELSE SubSeq(b, 1, CHOOSE i \in set : \A j \in set : j <= i)

Zeros(k) == [i \in 1 .. k |-> 0]
Shl(b, k) == IF b = <<>> THEN <<>> ELSE Zeros(k) \o b
BitAt(b, i) == IF i <= Len(b) THEN b[i] ELSE 0

\* the position of the lowest set bit of b # <<>>
LowBit(b) == CHOOSE i \in 1 .. Len(b) : b[i] = 1 /\ \A j \in 1 .. i - 1 : b[j] = 0

\* the arithmetic works on digits of LimbBits bits each, least significant
\* digit first
LimbBits == 10
Base == 2 ^ LimbBits

RECURSIVE Value(_)
Value(b) == IF b = <<>> THEN 0 ELSE b[1] + 2 * Value(Tail(b))

Limbs(b) ==
    [j \in 1 .. (Len(b) + LimbBits - 1) \div LimbBits |->
        Value(SubSeq(b, LimbBits * (j - 1) + 1, Min(LimbBits * j, Len(b))))]

FromLimbs(l) ==
    Trim([i \in 1 .. LimbBits * Len(l) |->
            (l[(i - 1) \div LimbBits + 1] \div 2 ^ ((i - 1) % LimbBits)) % 2])

RECURSIVE AddFrom(_, _, _, _)
AddFrom(a, b, i, carry) ==
    IF i > Max(Len(a), Len(b))
    THEN <<carry>>
    ELSE <<(BitAt(a, i) + BitAt(b, i) + carry) % Base>>
         \o AddFrom(a, b, i + 1, (BitAt(a, i) + BitAt(b, i) + carry) \div Base)

AddBits(a, b) == FromLimbs(AddFrom(Limbs(a), Limbs(b), 1, 0))

\* the digits a times the single digit k
RECURSIVE Scale(_, _, _, _)
Scale(a, k, i, carry) ==
    IF i > Len(a)
    THEN <<carry>>
    ELSE <<(a[i] * k + carry) % Base>>
         \o Scale(a, k, i + 1, (a[i] * k + carry) \div Base)

\* a * b, by shift and add over the digits of b
RECURSIVE MulLimbs(_, _)
MulLimbs(a, b) ==
    IF b = <<>> THEN <<>>
    ELSE AddFrom(Scale(a, b[1], 1, 0), <<0>> \o MulLimbs(a, Tail(b)), 1, 0)

MulBits(a, b) == FromLimbs(MulLimbs(Limbs(a), Limbs(b)))

\* the digits a divided by the int d, 0 < d <= 2^20, from digit i down: the
\* quotient digits, most significant first, then the remainder
RECURSIVE DivFrom(_, _, _, _)
DivFrom(a, d, i, rem) ==
    IF i = 0 THEN <<rem>>
    ELSE <<(Base * rem + a[i]) \div d>>
         \o DivFrom(a, d, i - 1, (Base * rem + a[i]) % d)

\* the bits a divided by the int d: quotient bits and remainder
DivBits(a, d) ==
    LET l   == Limbs(a)
        out == DivFrom(l, d, Len(l), 0)
    IN  [q |-> FromLimbs([j \in 1 .. Len(l) |-> out[Len(l) + 1 - j]]),
         r |-> out[Len(l) + 1]]

\* the binary64 value nearest to N * 2^e (plus a non-zero amount below the
\* last bit of N when sticky), ties to even
RoundToDouble(N, sticky, e) ==
    IF N = <<>> THEN [float |-> TRUE, m |-> <<>>, e |-> 0]
    ELSE IF Len(N) <= 53
    THEN [float |-> TRUE, m |-> Zeros(53 - Len(N)) \o N, e |-> e - (53 - Len(N))]
    ELSE LET d   == Len(N) - 53
             top == SubSeq(N, d + 1, Len(N))
             low == sticky \/ \E i \in 1 .. d - 1 : N[i] = 1
             up  == N[d] = 1 /\ (low \/ top[1] = 1)
             m1  == IF up THEN AddBits(top, <<1>>) ELSE top
         IN  IF Len(m1) = 54
             THEN [float |-> TRUE, m |-> SubSeq(m1, 2, 54), e |-> e + d + 1]
             ELSE [float |-> TRUE, m |-> m1, e |-> e + d]

\* the binary64 value nearest to N * 2^e / d for an int d > 0
RoundRatio(N, e, d) ==
    LET guard == Max(0, 56 + Len(Bits(d)) - Len(N))
        a     == Shl(N, guard)
        qr    == DivBits(a, d)
    IN  RoundToDouble(qr.q, qr.r # 0, e - guard)

PyInt(n) == [float |-> FALSE, n |-> n]

\* the float literal n/d (d a power of ten): the nearest binary64 value
PyFloat(n, d) == RoundRatio(Bits(n), 0, d)

\* the exact value N * 2^e of a number, N odd or zero
Exact(x) ==
    IF ~x.float THEN [N |-> Bits(x.n), e |-> 0]
    ELSE IF x.m = <<>> THEN [N |-> <<>>, e |-> 0]
    ELSE [N |-> SubSeq(x.m, LowBit(x.m), Len(x.m)), e |-> x.e + LowBit(x.m) - 1]

\* a + b: int + int is an int, anything else a float
PyAdd(a, b) ==
    IF ~a.float /\ ~b.float THEN PyInt(a.n + b.n)
    ELSE LET x == Exact(a)
             y == Exact(b)
             e == Min(x.e, y.e)
         IN  RoundToDouble(AddBits(Shl(x.N, x.e - e), Shl(y.N, y.e - e)), FALSE, e)

\* a * b: int * int is an int, anything else a float
PyMul(a, b) ==
    IF ~a.float /\ ~b.float THEN PyInt(a.n * b.n)
    ELSE LET x == Exact(a)
             y == Exact(b)
         IN  RoundToDouble(MulBits(x.N, y.N), FALSE, x.e + y.e)

\* a / b in binary64 for an int divisor b (the program divides by int
\* literals only)
FloatDiv(a, b) == RoundRatio(Exact(a).N, Exact(a).e, b.n)

\* `/` without `from __future__ import division`: floor division on two ints
ClassicDiv(a, b) ==
    IF ~a.float /\ ~b.float THEN PyInt(a.n \div b.n) ELSE FloatDiv(a, b)

\* `/` under `from __future__ import division`: true division, always a float
TrueDiv(a, b) == FloatDiv(a, b)

\* int * str repeats the string; the repetition is kept symbolic
StrTimes(n, s) == [repeat |-> n, of |-> s]

\* str + int raises TypeError; equal types concatenate or add
PlusRaises(left_type, right_type) == left_type # right_type

\* list[lo:hi] for 0 <= lo <= hi
PySlice(list, lo, hi) == SubSeq(list, Min(lo, Len(list)) + 1, Min(hi, Len(list)))

-----------------------------------------------------------------------------
(* The input file: the rows csv.DictReader yields *)

CsvRow(text, type, cpc) ==
    ("Keyword" :> text) @@ ("Type" :> type) @@ ("Max CPC" :> cpc)

CsvRows == { CsvRow("shoes", "EXACT", "1.5"), CsvRow("boots", "BROAD", "2") }

RECURSIVE SeqsUpTo(_, _)
SeqsUpTo(S, n) ==
    IF n = 0 THEN { <<>> }
    ELSE LET shorter == SeqsUpTo(S, n - 1)
         IN  shorter \cup { Append(s, x) : s \in { t \in shorter : Len(t) = n - 1 }, x \in S }

Inputs == SeqsUpTo(CsvRows, MaxRows)

ChunkSizes == (1 .. MaxChunk) \cup { _MAX_KEYWORD_REQUESTS }

\* the first cycle of CsvRows repeated to n rows: the long inputs of the
\* chunk-size boundary
LongInput(n) ==
    [i \in 1 .. n |-> IF i % 2 = 1 THEN CsvRow("shoes", "EXACT", "1.5")
                                   ELSE CsvRow("boots", "BROAD", "2")]

BoundaryInputs ==
    { LongInput(n) : n \in { _MAX_KEYWORD_REQUESTS, _MAX_KEYWORD_REQUESTS + 1 } }

\* lines 53-61: the request record built from one row
KeywordEstimateRequest(row) ==
    [keyword |-> [xsi_type |-> "Keyword",
                  matchType |-> row["Type"],
                  text |-> row["Keyword"]],
     maxCpc |-> [xsi_type |-> "Money",
                 microAmount |-> StrTimes(1000000, row["Max CPC"])]]

\* lines 50-61: the request list after the input file is read
LoadedRequests(rows) == [i \in 1 .. Len(rows) |-> KeywordEstimateRequest(rows[i])]

-----------------------------------------------------------------------------
(* The estimation service (the injected client): estimates as the code reads them *)

Stats(impressions, clicks, ctr, cpcMicros, totalCost, position) ==
    [impressionsPerDay |-> impressions,
     clicksPerDay |-> clicks,
     clickThroughRate |-> ctr,
     averageCpc |-> [microAmount |-> cpcMicros],
     totalCost |-> totalCost,
     averagePosition |-> position]

ExampleEstimate ==
    [min |-> Stats(PyInt(100), PyInt(10), PyFloat(1, 10), PyInt(500000),
                   PyInt(5000000), PyFloat(2, 1)),
     max |-> Stats(PyInt(200), PyInt(20), PyFloat(2, 10), PyInt(1500000),
                   PyInt(15000000), PyFloat(4, 1))]

OtherEstimate ==
    [min |-> Stats(PyInt(3), PyInt(1), PyFloat(1, 20), PyInt(250000),
                   PyInt(1000000), PyFloat(1, 1)),
     max |-> Stats(PyInt(4), PyInt(2), PyFloat(1, 10), PyInt(300001),
                   PyInt(2500001), PyFloat(3, 2))]

\* the estimate the service forecasts for one keyword estimate request
Forecast(request) ==
    IF request.keyword.text = "shoes" THEN ExampleEstimate ELSE OtherEstimate

\* a response of k estimates to a request list: aligned with the request as
\* far as it goes, surplus entries beyond it
Answer(request_list, k) ==
    [j \in 1 .. k |-> IF j <= Len(request_list) THEN Forecast(request_list[j])
                                                ELSE OtherEstimate]

\* how a call may end: the collaborator raises; keywordEstimates is the list
\* of estimate records (the documented shape); keywordEstimates holds one
\* list of estimate records (the shape lines 83-85 can iterate)
ResponseKinds == { "raise", "flat", "nested" }

ResponseCounts(m) == { k \in { 0, m - 1, m, m + 1 } : k >= 0 }

-----------------------------------------------------------------------------
(* Pieces of get_traffic_estimates *)

NoError == [type |-> "none", line |-> 0]
Raised(type, line) == [type |-> type, line |-> line]

NoFile == [exists |-> FALSE, header |-> {}, rows |-> <<>>]

\* lines 69-82: the selector handed to traffic_estimator_service.get
TrafficEstimateSelector(pending, batch) ==
    [campaignEstimateRequests |-> <<
        [adGroupEstimateRequests |-> << [keywordEstimateRequests |-> pending] >>,
         criteria |-> << [xsi_type |-> "Location", id |-> location_ID],
                         [xsi_type |-> "Language", id |-> language_ID] >>] >>]

\* the keyword estimate requests a selector submits
Submitted(selector) ==
    selector.campaignEstimateRequests[1].adGroupEstimateRequests[1].keywordEstimateRequests

\* a bug that swallows the collaborator's exception and skips the batch
ExtractSwallow(kind, estimates) ==
    CASE kind = "raise" ->
            [pc |-> "loop", error |-> NoError, estimates |-> <<>>]
      [] kind = "flat" ->
            IF estimates = <<>>
            THEN [pc |-> "failed", error |-> Raised("IndexError", 83), estimates |-> <<>>]
            ELSE [pc |-> "failed", error |-> Raised("TypeError", 85), estimates |-> <<>>]
      [] kind = "nested" ->
            [pc |-> IF estimates = <<>> THEN "loop" ELSE "pair",
             error |-> NoError, estimates |-> estimates]

\* lines 69-85: get(...)[0], the walk to ["keywordEstimates"][0], and reversed()
\* of what is found there
Extract(kind, estimates) ==
    CASE kind = "raise" ->
            \* the collaborator's exception propagates
            [pc |-> "failed", error |-> Raised("ServiceError", 69), estimates |-> <<>>]
      [] kind = "flat" ->
            \* keywordEstimates[0] is missing (IndexError) or is one estimate
            \* record, a dict, which reversed() rejects (TypeError)
            IF estimates = <<>>
            THEN [pc |-> "failed", error |-> Raised("IndexError", 83), estimates |-> <<>>]
            ELSE [pc |-> "failed", error |-> Raised("TypeError", 85), estimates |-> <<>>]
      [] kind = "nested" ->
            \* keywordEstimates[0] is a list of estimate records
            [pc |-> IF estimates = <<>> THEN "loop" ELSE "pair",
             error |-> NoError, estimates |-> estimates]

Two == PyInt(2)
DaysPerMonth == PyFloat(304, 10)

\* lines 89-103: the six values computed from one estimate
KeywordMetrics(estimate) ==
    ("Monthly Impressions" :>
        PyMul(TrueDiv(PyAdd(estimate.min.impressionsPerDay,
                            estimate.max.impressionsPerDay), Two), DaysPerMonth)) @@
    ("Monthly Clicks" :>
        PyMul(TrueDiv(PyAdd(estimate.min.clicksPerDay,
                            estimate.max.clicksPerDay), Two), DaysPerMonth)) @@
    ("CTR" :>
        TrueDiv(PyAdd(estimate.min.clickThroughRate,
                      estimate.max.clickThroughRate), Two)) @@
    ("Average CPC" :>
        TrueDiv(TrueDiv(PyAdd(estimate.min.averageCpc.microAmount,
                              estimate.max.averageCpc.microAmount), Two),
                PyInt(1000000))) @@
    ("Cost" :>
        TrueDiv(TrueDiv(PyAdd(estimate.min.totalCost,
                              estimate.max.totalCost), Two),
                PyInt(100000))) @@
    ("Average Position" :>
        TrueDiv(PyAdd(estimate.min.averagePosition,
                      estimate.max.averagePosition), Two))

\* the estimates the service hands out, and their metrics computed once
Estimates == { ExampleEstimate, OtherEstimate }
MetricsOf ==
    (ExampleEstimate :> KeywordMetrics(ExampleEstimate)) @@
    (OtherEstimate :> KeywordMetrics(OtherEstimate))

\* lines 87-104: the result row for one popped request and one estimate
KeywordData(keyword, estimate) == ("Keyword" :> keyword) @@ MetricsOf[estimate]

\* lines 23-25: one resumption of the generator _chunks(iterable, chunk_size).
\* Its body starts at the first resumption, where xrange captures
\* len(iterable); every resumption slices the list as it is at that moment.
_chunks(iterable, size, started, stop, pos) ==
    LET range_stop == IF started THEN stop ELSE Len(iterable)
        range_pos  == IF started THEN pos ELSE 0
    IN  [yields |-> range_pos < range_stop,
         chunk  |-> PySlice(iterable, range_pos, range_pos + size),
         stop   |-> range_stop,
         pos    |-> IF range_pos < range_stop THEN range_pos + size ELSE range_pos]

\* line 107: list.reverse()
Reverse(list) == [i \in 1 .. Len(list) |-> list[Len(list) + 1 - i]]

\* lines 105-106: "... %s" % index + 1 reads index (unbound when the loop
\* never ran) and then adds an int to a str
CrunchingMessage(idx) ==
    IF idx = NoIndex THEN "UnboundLocalError"
    ELSE IF PlusRaises("str", "int") THEN "TypeError"
    ELSE "none"

\* lines 111-117: the header is derived from the first row through a one-shot
\* iterator; the file is opened; the header comprehension drains the iterator
\* and DictWriter then finds every header key missing from its fieldnames
WriteOutput(rows) ==
    IF rows = <<>>
    THEN [pc |-> "failed", error |-> Raised("IndexError", 111), file |-> NoFile]
    ELSE LET field_names == DOMAIN rows[1]
             header      == [f \in field_names |-> f]
             remaining   == {}
             wrong_fields == { k \in DOMAIN header : k \notin remaining }
         IN  IF wrong_fields # {}
             THEN [pc |-> "failed", error |-> Raised("ValueError", 114),
                   file |-> [exists |-> TRUE, header |-> {}, rows |-> <<>>]]
             ELSE [pc |-> "done", error |-> NoError,
                   file |-> [exists |-> TRUE, header |-> field_names, rows |-> rows]]

\* a bug that opens the output file before anything else of the last stage
FinishOpenEarly(idx, data) ==
    LET message == CrunchingMessage(idx)
        opened  == [exists |-> TRUE, header |-> {}, rows |-> <<>>]
        written == WriteOutput(Reverse(data))
    IN  IF message # "none"
        THEN [pc |-> "failed", error |-> Raised(message, 105), file |-> opened,
              data |-> data]
        ELSE [pc |-> written.pc, error |-> written.error,
              file |-> IF written.file.exists THEN written.file ELSE opened,
              data |-> Reverse(data)]

\* lines 105-119: everything after the batch loop
Finish(idx, data) ==
    LET message == CrunchingMessage(idx)
        written == WriteOutput(Reverse(data))
    IN  IF message # "none"
        THEN [pc |-> "failed", error |-> Raised(message, 105), file |-> NoFile,
              data |-> data]
        ELSE [pc |-> written.pc, error |-> written.error, file |-> written.file,
              data |-> Reverse(data)]

-----------------------------------------------------------------------------
(* The state machine *)

Start(rows, size, os_resolves) ==
    /\ input_rows = rows
    /\ chunk_size = size
    /\ os_bound = os_resolves
    /\ pc = "start"
    /\ keyword_estimate_requests = <<>>
    /\ keywords_data = <<>>
    /\ index = NoIndex
    /\ keywords = <<>>
    /\ gen_started = FALSE
    /\ gen_stop = 0
    /\ gen_pos = 0
    /\ keyword_estimates = <<>>
    /\ estimates_left = 0
    /\ output_file = NoFile
    /\ error = NoError
    /\ requests = <<>>
    /\ batches = <<>>
    /\ answers = <<>>
    /\ consumed = <<>>

Init ==
    \E rows \in Inputs, size \in ChunkSizes, os_resolves \in BOOLEAN :
        Start(rows, size, os_resolves)

\* runs at the chunk-size boundary: 500 and 501 rows under the shipped setting
InitBoundary ==
    \E rows \in BoundaryInputs : Start(rows, _MAX_KEYWORD_REQUESTS, TRUE)

\* lines 49-63: dir_path needs the name `os`; then the input file is read
ReadInput ==
    /\ pc = "start"
    /\ IF os_bound
       THEN /\ keyword_estimate_requests' = LoadedRequests(input_rows)
            /\ pc' = "loop"
            /\ error' = error
       ELSE /\ keyword_estimate_requests' = keyword_estimate_requests
            /\ pc' = "failed"
            /\ error' = Raised("NameError", 49)
    /\ UNCHANGED <<input_rows, chunk_size, os_bound, keywords_data, index, keywords,
                   gen_started, gen_stop, gen_pos, keyword_estimates, estimates_left,
                   output_file, requests, batches, answers, consumed>>

\* lines 67-68: the for statement asks enumerate(_chunks(...)) for the next
\* (index, keywords) pair, or leaves the loop when the generator is exhausted
NextChunk ==
    /\ pc = "loop"
    /\ LET gen == _chunks(keyword_estimate_requests, chunk_size,
                          gen_started, gen_stop, gen_pos)
       IN  /\ gen_started' = TRUE
           /\ gen_stop' = gen.stop
           /\ gen_pos' = gen.pos
           /\ IF gen.yields
              THEN /\ keywords' = gen.chunk
                   /\ batches' = Append(batches, gen.chunk)
                   /\ index' = index + 1
                   /\ pc' = "call"
              ELSE /\ pc' = "after_loop"
                   /\ UNCHANGED <<keywords, batches, index>>
    /\ UNCHANGED <<input_rows, chunk_size, os_bound, keyword_estimate_requests,
                   keywords_data, keyword_estimates, estimates_left, output_file,
                   error, requests, answers, consumed>>

\* lines 69-85: one call of the service and the walk into its response
ServiceGet ==
    /\ pc = "call"
    /\ LET selector == TrafficEstimateSelector(keyword_estimate_requests, keywords)
       IN  \E kind \in ResponseKinds :
           \E k \in ResponseCounts(Len(Submitted(selector))) :
              LET got == Extract(kind, Answer(Submitted(selector), k))
              IN  /\ requests' = Append(requests, Submitted(selector))
                  /\ answers' = Append(answers, [kind |-> kind,
                                                 n |-> IF kind = "raise" THEN 0 ELSE k])
                  /\ keyword_estimates' = got.estimates
                  /\ estimates_left' = Len(got.estimates)
                  /\ pc' = got.pc
                  /\ error' = got.error
    /\ UNCHANGED <<input_rows, chunk_size, os_bound, keyword_estimate_requests,
                   keywords_data, index, keywords, gen_started, gen_stop, gen_pos,
                   output_file, batches, consumed>>

\* lines 85-104: one pass of the inner loop: the next estimate from the back,
\* the request popped from the end of the pending list, one result row
PairEstimate ==
    /\ pc = "pair"
    /\ LET estimate == keyword_estimates[estimates_left]
       IN  IF keyword_estimate_requests = <<>>
           THEN /\ pc' = "failed"
                /\ error' = Raised("IndexError", 86)
                /\ UNCHANGED <<keyword_estimate_requests, keywords_data,
                               estimates_left, consumed>>
           ELSE LET keyword == keyword_estimate_requests[Len(keyword_estimate_requests)]
                IN  /\ keyword_estimate_requests' =
                           SubSeq(keyword_estimate_requests, 1,
                                  Len(keyword_estimate_requests) - 1)
                    /\ keywords_data' = Append(keywords_data, KeywordData(keyword, estimate))
                    /\ consumed' = Append(consumed, estimate)
                    /\ estimates_left' = estimates_left - 1
                    /\ pc' = IF estimates_left = 1 THEN "loop" ELSE "pair"
                    /\ error' = error
    /\ UNCHANGED <<input_rows, chunk_size, os_bound, index, keywords, gen_started,
                   gen_stop, gen_pos, keyword_estimates, output_file, requests,
                   batches, answers>>

\* lines 105-119: the progress message, the reversal and the output file
AfterLoop ==
    /\ pc = "after_loop"
    /\ LET end == Finish(index, keywords_data)
       IN  /\ pc' = end.pc
           /\ error' = end.error
           /\ output_file' = end.file
           /\ keywords_data' = end.data
    /\ UNCHANGED <<input_rows, chunk_size, os_bound, keyword_estimate_requests, index,
                   keywords, gen_started, gen_stop, gen_pos, keyword_estimates,
                   estimates_left, requests, batches, answers, consumed>>

Next == ReadInput \/ NextChunk \/ ServiceGet \/ PairEstimate \/ AfterLoop

Spec == Init /\ [][Next]_vars

SpecBoundary == InitBoundary /\ [][Next]_vars

-----------------------------------------------------------------------------
(* Vocabulary of the properties *)

RunEnded == pc \in { "done", "failed" }

\* the request records of the input rows, in input order
AllRequests == LoadedRequests(input_rows)

\* every call was answered, with one estimate per submitted keyword in
\* submission order
ServiceAligned ==
    \A i \in DOMAIN answers :
        answers[i].kind # "raise" /\ answers[i].n = Len(requests[i])

\* some call was answered with a number of estimates other than the number of
\* keywords it submitted
Mismatch(i) == answers[i].kind # "raise" /\ answers[i].n # Len(requests[i])

OutputKeywords == [i \in DOMAIN output_file.rows |-> output_file.rows[i]["Keyword"]]

Count(list, x) == Cardinality({ i \in DOMAIN list : list[i] = x })

RECURSIVE Concat(_)
Concat(lists) ==
    IF lists = <<>> THEN <<>> ELSE lists[1] \o Concat(SubSeq(lists, 2, Len(lists)))

\* the run got past reading the input with a service that keeps its contract
GoodRun == os_bound /\ Len(input_rows) >= 1 /\ ServiceAligned /\ RunEnded

-----------------------------------------------------------------------------
C3_RowsPairKeywordWithItsEstimate ==
    GoodRun => \A i \in DOMAIN AllRequests :
                   /\ i \in DOMAIN output_file.rows
                   /\ output_file.rows[i] =
                          KeywordData(AllRequests[i], Forecast(AllRequests[i]))

(* C4: the service is invoked once per batch, with exactly that batch's    *)
(* requests and so with at most 500 of them; 500 rows make one request of  *)
(* 500 keywords, 501 rows two requests of 500 and 1.                       *)
C4_OneRequestPerBatch ==
    /\ Len(requests) = IF pc = "call" THEN Len(batches) - 1 ELSE Len(batches)
    /\ \A i \in DOMAIN requests :
          /\ requests[i] = batches[i]
          /\ Len(requests[i]) <= _MAX_KEYWORD_REQUESTS
    /\ pc = "after_loop" =>
          [i \in DOMAIN requests |-> Len(requests[i])] =
              IF Len(input_rows) = _MAX_KEYWORD_REQUESTS
              THEN << _MAX_KEYWORD_REQUESTS >>
              ELSE << _MAX_KEYWORD_REQUESTS, Len(input_rows) - _MAX_KEYWORD_REQUESTS >>

(* C5: the chunks the loop receives from _chunks are contiguous,           *)
(* non-overlapping pieces of the input whose concatenation is the input;   *)
(* each has chunk_size entries except possibly the last, which has between *)
(* 1 and chunk_size.                                                       *)
C5_BatchesPartitionInput ==
    LET joined == Concat(batches)
    IN  /\ Len(joined) <= Len(AllRequests)
        /\ joined = SubSeq(AllRequests, 1, Len(joined))
        /\ \A i \in DOMAIN batches :
              /\ Len(batches[i]) \in 1 .. chunk_size
              /\ i < Len(batches) => Len(batches[i]) = chunk_size
        /\ pc = "after_loop" => joined = AllRequests

(* C6: when some call is answered with a number of estimates other than    *)
(* the number of keywords submitted, the run fails at that call with a     *)
(* service error: no later call is made, the run does not complete and no  *)
(* output file is written.                                                 *)
C6_MismatchFailsTheRun ==
    \A i \in DOMAIN answers :
        Mismatch(i) =>
            /\ ~output_file.exists
            /\ pc # "done"
            /\ RunEnded => /\ error.line \in 69 .. 86
                           /\ Len(answers) = i

(* C7: an output file exists only once the chunk generator is exhausted    *)
(* and every response is consumed; when the service raises on a call, that *)
(* call is the last one, the run has failed and there is no output file.   *)
C7_NoOutputUnlessAllBatchesDone ==
    /\ output_file.exists =>
          /\ gen_started /\ gen_pos >= gen_stop
          /\ estimates_left = 0
          /\ Len(requests) = Len(batches)
          /\ RunEnded
    /\ \A i \in DOMAIN answers :
          answers[i].kind = "raise" =>
              /\ i = Len(answers)
              /\ pc = "failed"
              /\ ~output_file.exists

\* the service raised on a later batch, after result rows were assembled
C7_Witness ==
    /\ Len(answers) >= 2
    /\ answers[Len(answers)].kind = "raise"
    /\ keywords_data # <<>>
    /\ pc = "failed"
    /\ ~output_file.exists

(* C8: a run over zero keyword rows ends in an error and never creates an  *)
(* output file.                                                            *)
C8_EmptyInputFails ==
    input_rows = <<>> =>
        /\ ~output_file.exists
        /\ pc # "done"
        /\ RunEnded => error.type # "none"
        /\ ~RunEnded => ENABLED Next

\* the empty run got past the read, found no batch and failed after the loop
C8_Witness ==
    /\ input_rows = <<>>
    /\ pc = "failed"
    /\ error.line = 105
    /\ requests = <<>>
    /\ ~output_file.exists

-----------------------------------------------------------------------------
(* Vocabulary of C9 *)

\* the float Python prints as 0x1.<thirteen hex digits>p<exponent>
Binary64(hex, exponent) ==
    [float |-> TRUE,
     m |-> [i \in 1 .. 53 |->
               IF i = 53 THEN 1
               ELSE (hex[13 - ((i - 1) \div 4)] \div (2 ^ ((i - 1) % 4))) % 2],
     e |-> exponent - 52]

\* the float of a whole number
Whole(n) == RoundToDouble(Bits(n), FALSE, 0)

\* the next float up and the next float down
Succ(x) ==
    LET m1 == AddBits(x.m, <<1>>)
    IN  IF Len(m1) = 54 THEN [float |-> TRUE, m |-> SubSeq(m1, 2, 54), e |-> x.e + 1]
                        ELSE [float |-> TRUE, m |-> m1, e |-> x.e]

Pred(x) ==
    IF LowBit(x.m) = 53
    THEN [float |-> TRUE, m |-> [i \in 1 .. 53 |-> 1], e |-> x.e - 1]
    ELSE [float |-> TRUE,
          m |-> [i \in 1 .. 53 |-> IF i < LowBit(x.m) THEN 1
                                   ELSE IF i = LowBit(x.m) THEN 0 ELSE x.m[i]],
          e |-> x.e]

\* the floats within two units in the last place of x
Near(x) == { Pred(Pred(x)), Pred(x), x, Succ(x), Succ(Succ(x)) }

\* the exact sum of two numbers, as N * 2^e
ExactSum(a, b) ==
    LET x == Exact(a)
        y == Exact(b)
        e == Min(x.e, y.e)
    IN  [N |-> AddBits(Shl(x.N, x.e - e), Shl(y.N, y.e - e)), e |-> e]

\* the floats within two units in the last place of (a + b) * num / den
Midpoint(a, b, num, den) ==
    Near(RoundRatio(MulBits(ExactSum(a, b).N, Bits(num)), ExactSum(a, b).e, den))

\* for each estimate, the values the midpoint formulas allow for each field
AllowedFor(estimate) ==
        LET lo == estimate.min
            hi == estimate.max
        IN  ("Monthly Impressions" :>
                Midpoint(lo.impressionsPerDay, hi.impressionsPerDay, 304, 20)) @@
            ("Monthly Clicks" :>
                Midpoint(lo.clicksPerDay, hi.clicksPerDay, 304, 20)) @@
            ("CTR" :>
                Midpoint(lo.clickThroughRate, hi.clickThroughRate, 1, 2)) @@
            ("Average CPC" :>
                Midpoint(lo.averageCpc.microAmount, hi.averageCpc.microAmount,
                         1, 2000000)) @@
            ("Cost" :>
                Midpoint(lo.totalCost, hi.totalCost, 1, 200000)) @@
            ("Average Position" :>
                Midpoint(lo.averagePosition, hi.averagePosition, 1, 2))

Allowed ==
    (ExampleEstimate :> AllowedFor(ExampleEstimate)) @@
    (OtherEstimate :> AllowedFor(OtherEstimate))

MetricNames == DOMAIN Allowed[ExampleEstimate]

\* every metric of every result row is the float its midpoint formula gives,
\* up to the rounding of the float operations (two units in the last place)
MetricsFollowTheFormulas ==
    \A i \in DOMAIN keywords_data :
        \A name \in MetricNames :
            /\ keywords_data[i][name].float
            /\ keywords_data[i][name] \in Allowed[consumed[i]][name]

\* the values of the worked example, CTR left out
ExampleValues(row) ==
    /\ row["Monthly Impressions"] = Whole(4560)
    /\ row["Monthly Clicks"] = Whole(456)
    /\ row["Average CPC"] = Whole(1)
    /\ row["Cost"] = Whole(100)
    /\ row["Average Position"] = Whole(3)

\* 0.15, the float 0x1.3333333333333p-3
Float_0_15 == Binary64(<<3, 3, 3, 3, 3, 3, 3, 3, 3, 3, 3, 3, 3>>, -3)

\* 0.15000000000000002, the float 0x1.3333333333334p-3
Float_0_15000000000000002 == Binary64(<<3, 3, 3, 3, 3, 3, 3, 3, 3, 3, 3, 3, 4>>, -3)

(* C9 as stated: every result row holds the midpoint metrics of its        *)
(* estimate, as floats: impressions and clicks are the min/max mean times  *)
(* 30.4, CTR and position the mean, average CPC the mean of the micro      *)
(* amounts over 1,000,000, cost the mean of the total costs over 100,000;  *)
(* the example estimate gives 4560, 456, 0.15, 1.0, 100.0 and 3.0.         *)
C9_MidpointMetricsAsStated ==
    /\ MetricsFollowTheFormulas
    /\ \A i \in DOMAIN keywords_data :
          consumed[i] = ExampleEstimate =>
              /\ ExampleValues(keywords_data[i])
              /\ keywords_data[i]["CTR"] = Float_0_15

(* C9 as amended: the same, with the example's CTR the float               *)
(* (0.1 + 0.2) / 2 = 0.15000000000000002, one unit in the last place above *)
(* the float 0.15.                                                         *)
C9_MidpointMetrics ==
    /\ MetricsFollowTheFormulas
    /\ \A i \in DOMAIN keywords_data :
          consumed[i] = ExampleEstimate =>
              /\ ExampleValues(keywords_data[i])
              /\ keywords_data[i]["CTR"] = Float_0_15000000000000002

\* a result row was computed from the example estimate and one from the other
C9_Witness ==
    /\ \E i \in DOMAIN keywords_data :
          /\ consumed[i] = ExampleEstimate
          /\ keywords_data[i]["Cost"] = Whole(100)
          /\ keywords_data[i]["CTR"] = Succ(Float_0_15)
    /\ \E i \in DOMAIN keywords_data : consumed[i] = OtherEstimate

(* C10: a request is issued only when the previous response is consumed,   *)
(* and then the pending list is the input rows not yet paired, in input    *)
(* order; pending rows plus result rows are the input rows between         *)
(* batches; the pending list is empty when the last batch is consumed.     *)
(* (That the pending list never grows is C10_PendingNeverGrows.)           *)
C10_SequentialPendingList ==
    /\ pc = "call" =>
          /\ estimates_left = 0
          /\ keyword_estimate_requests =
                 SubSeq(AllRequests, 1, Len(AllRequests) - Len(keywords_data))
    /\ pc \in { "loop", "call", "after_loop" } =>
          Len(keyword_estimate_requests) + Len(keywords_data) = Len(input_rows)
    /\ pc = "after_loop" => keyword_estimate_requests = <<>>

\* once the input is read the pending list never gets longer
C10_PendingNeverGrows ==
    [][pc # "start" =>
          Len(keyword_estimate_requests') <= Len(keyword_estimate_requests)]_vars

====
